---- MODULE Spec2Model ----
(***************************************************************************)
(* Solar-Energy-Tracker: the SolarTracker component                        *)
(* (src/components/weekly-summary.tsx) with its localStorage persistence,  *)
(* the week window, the weekly statistics and the chart's average          *)
(* (src/components/solar-chart.tsx).                                       *)
(*                                                                         *)
(* Dates are day numbers (days since 1970-01-01, local calendar); the      *)
(* "yyyy-MM-dd" strings the code stores are modelled as the integer        *)
(* yyyymmdd, computed by the civil-calendar conversion.  Production is in  *)
(* whole kWh; averages are exact fractions [num, den].                     *)
(***************************************************************************)
EXTENDS Integers, Sequences, FiniteSets

VARIABLES
  storage,          \* localStorage["solarEntries"]: [kind, items]
  entries,          \* useState entries (weekly-summary.tsx:132)
  date,             \* useState date, a day number (weekly-summary.tsx:131)
  isLoading,        \* useState isLoading (weekly-summary.tsx:135)
  entryToDelete,    \* useState entryToDelete (weekly-summary.tsx:137)
  showDeleteDialog, \* useState showDeleteDialog (weekly-summary.tsx:138)
  pc,               \* position in the mount sequence: load, save0, save1, idle
  pendingEntries,   \* the setEntries queued by the load effect: [set, val]
  undoToasts,       \* deleted entries whose "Entry deleted" toast still offers Undo
  toasts,           \* toast.error titles raised by the last step
  nextId,           \* number of ids crypto.randomUUID() has handed to the store
  lastWrite,        \* outcome of the most recent localStorage.setItem: none, ok, failed
  writeFailures,    \* number of localStorage.setItem calls that threw
  mountStorage      \* storage as it was when the component mounted (until the first user action)

vars == <<storage, entries, date, isLoading, entryToDelete, showDeleteDialog, pc,
          pendingEntries, undoToasts, toasts, nextId, lastWrite, writeFailures, mountStorage>>

----------------------------------------------------------------------------
(* Bounds of the model *)

\* most entries the in-memory collection and an initially stored array may hold
MaxEntries == 2
\* most ids crypto.randomUUID() hands to the store in one run
MaxIds == 1
\* most "Entry deleted" toasts alive at once
MaxUndoToasts == 1
\* most localStorage.setItem calls that throw in one run
MaxWriteFailures == 1
\* most entries of a collection the statistics are computed from
MaxStatsEntries == 3

----------------------------------------------------------------------------
(* Values *)

\* an entry object without an id key (entry.id is undefined)
AbsentId == -1
\* an entry whose id is the empty string (falsy)
EmptyId == 0
\* the id of a week-window day no stored entry backs (a throwaway randomUUID)
PlaceholderId == -2
\* handleDateChange(undefined)
NoDate == -1
\* handleDateChange(new Date(NaN))
InvalidDate == -2
\* zod: .max(100)
MaxProduction == 100

\* ids found in storage written before this run
StoredIds == {AbsentId, EmptyId, 101}

\* the null/undefined of entryToDelete and maxProductionDay
Null == [date |-> 0, production |-> 0, id |-> AbsentId]

----------------------------------------------------------------------------
(* date-fns on day numbers *)

\* days since 1970-01-01 of the civil date y-m-d
DaysFromCivil(y, m, d) ==
  LET yy  == IF m <= 2 THEN y - 1 ELSE y
      era == yy \div 400
      yoe == yy - era * 400
      mp  == IF m > 2 THEN m - 3 ELSE m + 9
      doy == (153 * mp + 2) \div 5 + d - 1
      doe == yoe * 365 + yoe \div 4 - yoe \div 100 + doy
  IN  era * 146097 + doe - 719468

\* format(date, "yyyy-MM-dd"): the string as the integer yyyymmdd
format(z) ==
  LET zz  == z + 719468
      era == zz \div 146097
      doe == zz - era * 146097
      yoe == (doe - doe \div 1460 + doe \div 36524 - doe \div 146096) \div 365
      doy == doe - (365 * yoe + yoe \div 4 - yoe \div 100)
      mp  == (5 * doy + 2) \div 153
      d   == doy - (153 * mp + 2) \div 5 + 1
      m   == IF mp < 10 THEN mp + 3 ELSE mp - 9
      y   == yoe + era * 400 + (IF m <= 2 THEN 1 ELSE 0)
  IN  y * 10000 + m * 100 + d

\* Date.getDay(): 0 is Sunday; 1970-01-01 was a Thursday
getDay(z) == (z + 4) % 7

\* mutant of startOfWeek: weeks start on Monday (weekStartsOn = 1)
startOfWeekMonday(z) == z - ((getDay(z) + 6) % 7)

\* startOfWeek(date) with the default weekStartsOn = 0
startOfWeek(z) == z - getDay(z)

\* addDays(date, i)
addDays(z, i) == z + i

\* isValid(newDate) after the !newDate test
isValid(newDate) == newDate # NoDate /\ newDate # InvalidDate

\* new Date() when the page opens: Saturday 2024-03-02
Today == DaysFromCivil(2024, 3, 2)

\* the days picked in the calendar: Sunday 2023-12-31 (its week runs into 2024)
\* and Saturday 2024-03-02 (its week runs across 29 February)
SelectableDays == {DaysFromCivil(2023, 12, 31), DaysFromCivil(2024, 3, 2)}

----------------------------------------------------------------------------
(* The stored JSON text and the entry collection *)

\* entry.id || crypto.randomUUID() keeps an id exactly when it is truthy
Truthy(id) == id # AbsentId /\ id # EmptyId

\* no setEntries queued
NoPending == [set |-> FALSE, val |-> <<>>]

\* mountStorage once the first user action has been handled
NoMount == [kind |-> "none", items |-> <<>>]

\* mutant of JSONstringify: the id key is not written
JSONstringifyNoId(ents) ==
  [kind  |-> "array",
   items |-> [i \in 1..Len(ents) |->
                [date |-> ents[i].date, production |-> ents[i].production,
                 id |-> AbsentId]]]

\* JSON.stringify(entries): the text of an array with one object per entry, each
\* with its date, production and id keys (an undefined id, AbsentId, writes no key)
JSONstringify(ents) ==
  [kind  |-> "array",
   items |-> [i \in 1..Len(ents) |->
                [date |-> ents[i].date, production |-> ents[i].production,
                 id |-> ents[i].id]]]

\* mutant of HasSavedEntries: if (savedEntries !== null), so "" is parsed
HasSavedEntriesNotNull(st) == st.kind # "missing"

\* if (savedEntries): null (no key) and "" are falsy
HasSavedEntries(st) == st.kind \notin {"missing", "empty"}

\* JSON.parse(savedEntries).map(...) throws on "" and invalid JSON (SyntaxError)
\* and on a value with no map (TypeError)
ParseThrows(st) == st.kind \in {"empty", "invalid", "nonArray"}

\* number of ids the load effect has to generate for the items
NeedIds(items) == Cardinality({i \in 1..Len(items) : ~Truthy(items[i].id)})

\* mutant of entriesWithIds: every entry is given a new id, id: crypto.randomUUID()
entriesWithIdsAlwaysFresh(items, n) ==
  [i \in 1..Len(items) |->
     [date |-> items[i].date, production |-> items[i].production, id |-> n + i]]

\* parsedEntries.map(entry => ({...entry, id: entry.id || crypto.randomUUID()}))
entriesWithIds(items, n) ==
  [i \in 1..Len(items) |->
     [date |-> items[i].date, production |-> items[i].production,
      id |-> IF Truthy(items[i].id) THEN items[i].id
             ELSE n + Cardinality({j \in 1..i : ~Truthy(items[j].id)})]]

\* mutant of loadEffect: a parsed value that is no array is wrapped into one
loadEffectWrap(st, n) ==
  IF ~HasSavedEntries(st) THEN [set |-> FALSE, val |-> <<>>, caught |-> FALSE, nextId |-> n]
  ELSE IF st.kind = "invalid" THEN [set |-> FALSE, val |-> <<>>, caught |-> TRUE, nextId |-> n]
  ELSE IF st.kind = "nonArray"
       THEN [set |-> TRUE, val |-> <<[date |-> 0, production |-> 0, id |-> n + 1]>>,
             caught |-> FALSE, nextId |-> n + 1]
  ELSE [set |-> TRUE, val |-> entriesWithIds(st.items, n), caught |-> FALSE,
        nextId |-> n + NeedIds(st.items)]

\* the load effect's try block: what it queues, whether it caught, the ids it used
loadEffect(st, n) ==
  IF ~HasSavedEntries(st) THEN [set |-> FALSE, val |-> <<>>, caught |-> FALSE, nextId |-> n]
  ELSE IF ParseThrows(st) THEN [set |-> FALSE, val |-> <<>>, caught |-> TRUE, nextId |-> n]
  ELSE [set |-> TRUE, val |-> entriesWithIds(st.items, n), caught |-> FALSE,
        nextId |-> n + NeedIds(st.items)]

\* localStorage.setItem("solarEntries", JSON.stringify(entries)); ok = it did not throw
setItem(st, ents, ok) == IF ok THEN JSONstringify(ents) ELSE st

\* mutant of saveToasts: the catch block raises no toast
saveToastsSilent(ok) == {}

\* the save effect's catch block
saveToasts(ok) == IF ok THEN {} ELSE {"Failed to save data"}

\* mutant of saveEffect: the effect writes the collection of the previous render
saveEffectStale(ents, ok) ==
  /\ ~ok => writeFailures < MaxWriteFailures
  /\ storage' = setItem(storage, entries, ok)
  /\ lastWrite' = IF ok THEN "ok" ELSE "failed"
  /\ writeFailures' = IF ok THEN writeFailures ELSE writeFailures + 1

\* useEffect(() => {...}, [entries]): write the whole collection under the one key
saveEffect(ents, ok) ==
  /\ ~ok => writeFailures < MaxWriteFailures
  /\ storage' = setItem(storage, ents, ok)
  /\ lastWrite' = IF ok THEN "ok" ELSE "failed"
  /\ writeFailures' = IF ok THEN writeFailures ELSE writeFailures + 1

\* entries.findIndex(entry => entry.date === formattedDate), 1-based; 0 is JS's -1
findIndex(ents, d) ==
  IF \E i \in 1..Len(ents) : ents[i].date = d
  THEN CHOOSE i \in 1..Len(ents) :
         ents[i].date = d /\ \A j \in 1..(i - 1) : ents[j].date # d
  ELSE 0

\* onSubmit's updatedEntries
updatedEntries(ents, formattedDate, productionValue, uuid) ==
  LET existingEntryIndex == findIndex(ents, formattedDate)
  IN  IF existingEntryIndex >= 1
      THEN [ents EXCEPT ![existingEntryIndex].production = productionValue]
      ELSE Append(ents, [date |-> formattedDate, production |-> productionValue, id |-> uuid])

\* mutant of removeById: the filter's test inverted
removeByIdInverted(ents, id) == SelectSeq(ents, LAMBDA e : e.id = id)

\* confirmDelete: entries.filter(e => e.id !== entryToDelete.id)
removeById(ents, id) == SelectSeq(ents, LAMBDA e : e.id # id)

\* the undo handler: [...prev, deletedEntry]
restoreEntry(prev, deletedEntry) == Append(prev, deletedEntry)

----------------------------------------------------------------------------
(* Week window, statistics, chart *)

\* mutant of getCurrentWeekEntries: the last entry of the date is taken
getCurrentWeekEntriesLast(d, ents) ==
  [i \in 1..7 |->
     LET weekDate == format(addDays(startOfWeek(d), i - 1))
         Matches  == {k \in 1..Len(ents) : ents[k].date = weekDate}
         idx      == IF Matches = {} THEN 0
                     ELSE CHOOSE k \in Matches : \A j \in Matches : j <= k
     IN  [date |-> weekDate,
          production |-> IF idx >= 1 THEN ents[idx].production ELSE 0,
          id |-> IF idx >= 1 /\ Truthy(ents[idx].id) THEN ents[idx].id ELSE PlaceholderId]]

\* getCurrentWeekEntries(): 7 days from startOfWeek(date), each with the found entry's data
getCurrentWeekEntries(d, ents) ==
  [i \in 1..7 |->
     LET weekDate == format(addDays(startOfWeek(d), i - 1))
         idx      == findIndex(ents, weekDate)
     IN  [date |-> weekDate,
          production |-> IF idx >= 1 THEN ents[idx].production ELSE 0,
          id |-> IF idx >= 1 /\ Truthy(ents[idx].id) THEN ents[idx].id ELSE PlaceholderId]]

RECURSIVE SumProduction(_, _)
\* reduce((sum, entry) => sum + entry.production, 0) over the first n entries
SumProduction(week, n) ==
  IF n = 0 THEN 0 ELSE SumProduction(week, n - 1) + week[n].production

\* Math.max(...week.map(entry => entry.production))
MaxProductionOf(week) ==
  CHOOSE m \in {week[i].production : i \in 1..Len(week)} :
    \A i \in 1..Len(week) : week[i].production <= m

\* mutant of findByProduction: the last day with that production is taken
findByProductionLast(week, p) ==
  IF \E i \in 1..Len(week) : week[i].production = p
  THEN week[CHOOSE i \in 1..Len(week) :
              week[i].production = p /\ \A j \in (i + 1)..Len(week) : week[j].production # p]
  ELSE Null

\* week.find(entry => entry.production === maxProduction)
findByProduction(week, p) ==
  IF \E i \in 1..Len(week) : week[i].production = p
  THEN week[CHOOSE i \in 1..Len(week) :
              week[i].production = p /\ \A j \in 1..(i - 1) : week[j].production # p]
  ELSE Null

\* mutant of calculateWeeklyStats: the total is divided by all the days of the week
calculateWeeklyStatsAllDays(week) ==
  LET weeklyTotal        == SumProduction(week, Len(week))
      daysWithProduction == Cardinality({i \in 1..Len(week) : week[i].production > 0})
      maxProduction      == MaxProductionOf(week)
  IN  [weeklyTotal      |-> weeklyTotal,
       dailyAverage     |-> IF daysWithProduction > 0
                            THEN [num |-> weeklyTotal, den |-> Len(week)]
                            ELSE [num |-> 0, den |-> 1],
       maxProduction    |-> maxProduction,
       maxProductionDay |-> findByProduction(week, maxProduction)]

\* calculateWeeklyStats(); dailyAverage is the exact fraction num/den
calculateWeeklyStats(week) ==
  LET weeklyTotal        == SumProduction(week, Len(week))
      daysWithProduction == Cardinality({i \in 1..Len(week) : week[i].production > 0})
      maxProduction      == MaxProductionOf(week)
  IN  [weeklyTotal      |-> weeklyTotal,
       dailyAverage     |-> IF daysWithProduction > 0
                            THEN [num |-> weeklyTotal, den |-> daysWithProduction]
                            ELSE [num |-> 0, den |-> 1],
       maxProduction    |-> maxProduction,
       maxProductionDay |-> findByProduction(week, maxProduction)]

\* mutant of bestDayShown: the card tests maxProductionDay alone
bestDayShownUnguarded(stats) ==
  IF stats.maxProductionDay # Null THEN stats.maxProductionDay ELSE Null

\* the BEST DAY card: maxProduction > 0 && maxProductionDay ? the day : "No data"
bestDayShown(stats) ==
  IF stats.maxProduction > 0 /\ stats.maxProductionDay # Null
  THEN stats.maxProductionDay
  ELSE Null

\* the WeeklySummary component: the same figures, and its BEST DAY cell
WeeklySummary(week) ==
  LET weeklyTotal        == SumProduction(week, Len(week))
      daysWithProduction == Cardinality({i \in 1..Len(week) : week[i].production > 0})
      maxProduction      == MaxProductionOf(week)
      maxProductionDay   == findByProduction(week, maxProduction)
  IN  [weeklyTotal      |-> weeklyTotal,
       dailyAverage     |-> IF daysWithProduction > 0
                            THEN [num |-> weeklyTotal, den |-> daysWithProduction]
                            ELSE [num |-> 0, den |-> 1],
       maxProductionDay |-> maxProductionDay,
       bestDayShown     |-> IF maxProduction > 0 /\ maxProductionDay # Null
                            THEN maxProductionDay ELSE Null]

\* SolarChart: average of the non-zero production values, for the reference line
chartAverage(week) ==
  LET productionValues == [i \in 1..Len(week) |-> week[i].production]
      nonZeroValues    == SelectSeq(productionValues, LAMBDA v : v > 0)
  IN  IF Len(nonZeroValues) > 0
      THEN [num |-> SumProduction([i \in 1..Len(nonZeroValues) |->
                                     [production |-> nonZeroValues[i]]],
                                  Len(nonZeroValues)),
            den |-> Len(nonZeroValues)]
      ELSE [num |-> 0, den |-> 1]

----------------------------------------------------------------------------
(* Form validation *)

\* what the production field can hold: nothing or text (NaN once coerced), or a number
FormInputs ==
  {[kind |-> "nan", val |-> 0]} \cup
  {[kind |-> "num", val |-> v] : v \in {-1, 0, MaxProduction, MaxProduction + 1}}

\* mutant of formSchemaError: the schema without .max(100)
formSchemaErrorNoMax(raw) ==
  IF raw.kind = "nan" THEN "Production must be a number"
  ELSE IF raw.val < 0 THEN "Production value must be positive"
  ELSE ""

\* formSchema: z.coerce.number().nonnegative().max(100); "" is accepted
formSchemaError(raw) ==
  IF raw.kind = "nan" THEN "Production must be a number"
  ELSE IF raw.val < 0 THEN "Production value must be positive"
  ELSE IF raw.val > MaxProduction THEN "Production value seems too high (max 100 kWh)"
  ELSE ""

----------------------------------------------------------------------------
(* Initial state: the component has rendered once, no effect has run *)

\* dates and production of entries stored before this run
\* 2024-02-29 is shown in today's week but is not among the days picked
StoredDates == {format(DaysFromCivil(2024, 2, 29)), format(DaysFromCivil(2024, 3, 2))}
StoredProductions == {MaxProduction}
StoredEntries == [date : StoredDates, production : StoredProductions, id : StoredIds]

\* what localStorage may hold under the key when the page opens
InitialStorage ==
  {[kind |-> k, items |-> <<>>] : k \in {"missing", "empty", "invalid", "nonArray"}} \cup
  {[kind |-> "array", items |-> s] :
     s \in UNION {[1..n -> StoredEntries] : n \in 0..MaxEntries}}

Init ==
  /\ storage \in InitialStorage
  /\ entries = <<>>
  /\ date = Today
  /\ isLoading = TRUE
  /\ entryToDelete = Null
  /\ showDeleteDialog = FALSE
  /\ pc = "load"
  /\ pendingEntries = NoPending
  /\ undoToasts = {}
  /\ toasts = {}
  /\ nextId = 0
  /\ lastWrite = "none"
  /\ writeFailures = 0
  /\ mountStorage = storage

----------------------------------------------------------------------------
(* Mount: the load effect, the save effect of the first render, the save   *)
(* effect of the render that shows the loaded entries                      *)

\* useEffect(() => {...}, []): read, parse, give ids, queue setEntries
MountLoadEffect ==
  /\ pc = "load"
  /\ LET r == loadEffect(storage, nextId)
     IN  /\ pendingEntries' = [set |-> r.set, val |-> r.val]
         /\ nextId' = r.nextId
         /\ toasts' = IF r.caught THEN {"Failed to load saved data"} ELSE {}
  /\ isLoading' = FALSE
  /\ pc' = "save0"
  /\ UNCHANGED <<storage, entries, date, entryToDelete, showDeleteDialog, undoToasts,
                 lastWrite, writeFailures, mountStorage>>

\* useEffect(() => {...}, [entries]) after the first render: entries is still [];
\* then the queued setEntries is applied and the component renders again
MountSaveEffect(ok) ==
  /\ pc = "save0"
  /\ saveEffect(entries, ok)
  /\ toasts' = saveToasts(ok)
  /\ entries' = IF pendingEntries.set THEN pendingEntries.val ELSE entries
  /\ pc' = IF pendingEntries.set THEN "save1" ELSE "idle"
  /\ pendingEntries' = NoPending
  /\ UNCHANGED <<date, isLoading, entryToDelete, showDeleteDialog, undoToasts,
                 nextId, mountStorage>>

\* the save effect of the render with the loaded entries
RerenderSaveEffect(ok) ==
  /\ pc = "save1"
  /\ saveEffect(entries, ok)
  /\ toasts' = saveToasts(ok)
  /\ pc' = "idle"
  /\ UNCHANGED <<entries, date, isLoading, entryToDelete, showDeleteDialog, pendingEntries,
                 undoToasts, nextId, mountStorage>>

\* the page is opened again: Home mounts a new SolarTracker over the same localStorage
Reload ==
  /\ pc = "idle"
  /\ nextId + NeedIds(storage.items) <= MaxIds
  /\ entries' = <<>>
  /\ date' = Today
  /\ isLoading' = TRUE
  /\ entryToDelete' = Null
  /\ showDeleteDialog' = FALSE
  /\ pc' = "load"
  /\ pendingEntries' = NoPending
  /\ undoToasts' = {}
  /\ toasts' = {}
  /\ mountStorage' = storage
  /\ UNCHANGED <<storage, nextId, lastWrite, writeFailures>>

----------------------------------------------------------------------------
(* User actions; each ends with the render and the save effect it causes *)

\* the controls outside the delete dialog respond
Interactive == pc = "idle" /\ ~showDeleteDialog

\* handleDateChange(newDate)
handleDateChange(newDate) ==
  /\ Interactive
  /\ IF ~isValid(newDate)
     THEN /\ toasts' = {"Invalid date selected"}
          /\ UNCHANGED date
     ELSE /\ date' = newDate
          /\ toasts' = {}
  /\ mountStorage' = NoMount
  /\ UNCHANGED <<storage, entries, isLoading, entryToDelete, showDeleteDialog, pc,
                 pendingEntries, undoToasts, nextId, lastWrite, writeFailures>>

\* form.handleSubmit with a value formSchema rejects: onSubmit is not called
SubmitInvalid(raw) ==
  /\ Interactive
  /\ ~isLoading
  /\ formSchemaError(raw) # ""
  /\ toasts' = {}
  /\ mountStorage' = NoMount
  /\ UNCHANGED <<storage, entries, date, isLoading, entryToDelete, showDeleteDialog, pc,
                 pendingEntries, undoToasts, nextId, lastWrite, writeFailures>>

\* onSubmit(values) with values.production = raw.val, then the save effect
onSubmit(raw, ok) ==
  /\ Interactive
  /\ ~isLoading
  /\ formSchemaError(raw) = ""
  /\ LET formattedDate == format(date)
         isNew         == findIndex(entries, formattedDate) = 0
     IN  /\ isNew => (Len(entries) < MaxEntries /\ nextId < MaxIds)
         /\ entries' = updatedEntries(entries, formattedDate, raw.val, nextId + 1)
         /\ nextId' = IF isNew THEN nextId + 1 ELSE nextId
         /\ toasts' = saveToasts(ok)
  /\ saveEffect(entries', ok)
  /\ mountStorage' = NoMount
  /\ UNCHANGED <<date, isLoading, entryToDelete, showDeleteDialog, pc, pendingEntries,
                 undoToasts>>

\* mutant of handleDeleteEntry: the X button is shown on every day of the week
handleDeleteEntryAnyDay(entry) ==
  /\ Interactive
  /\ ~isLoading
  /\ entryToDelete' = entry
  /\ showDeleteDialog' = TRUE
  /\ toasts' = {}
  /\ mountStorage' = NoMount
  /\ UNCHANGED <<storage, entries, date, isLoading, pc, pendingEntries, undoToasts,
                 nextId, lastWrite, writeFailures>>

\* handleDeleteEntry(entry): the X button of a week day with production > 0
handleDeleteEntry(entry) ==
  /\ Interactive
  /\ ~isLoading
  /\ entry.production > 0
  /\ entryToDelete' = entry
  /\ showDeleteDialog' = TRUE
  /\ toasts' = {}
  /\ mountStorage' = NoMount
  /\ UNCHANGED <<storage, entries, date, isLoading, pc, pendingEntries, undoToasts,
                 nextId, lastWrite, writeFailures>>

\* the dialog's Cancel button and onOpenChange: setShowDeleteDialog(false)
cancelDelete ==
  /\ pc = "idle"
  /\ showDeleteDialog
  /\ showDeleteDialog' = FALSE
  /\ toasts' = {}
  /\ UNCHANGED <<storage, entries, date, isLoading, entryToDelete, pc, pendingEntries,
                 undoToasts, nextId, lastWrite, writeFailures, mountStorage>>

\* confirmDelete(), then the save effect
confirmDelete(ok) ==
  /\ pc = "idle"
  /\ showDeleteDialog
  /\ entryToDelete # Null
  /\ Cardinality(undoToasts) < MaxUndoToasts
  /\ entries' = removeById(entries, entryToDelete.id)
  /\ undoToasts' = undoToasts \cup {entryToDelete}
  /\ toasts' = saveToasts(ok)
  /\ saveEffect(entries', ok)
  /\ showDeleteDialog' = FALSE
  /\ entryToDelete' = Null
  /\ UNCHANGED <<date, isLoading, pc, pendingEntries, nextId, mountStorage>>

\* the toast's Undo: setEntries(prev => [...prev, deletedEntry]), then the save effect;
\* while the delete dialog is open the page outside it, the toast included, is inert
undo(deletedEntry, ok) ==
  /\ Interactive
  /\ deletedEntry \in undoToasts
  /\ Len(entries) < MaxEntries
  /\ entries' = restoreEntry(entries, deletedEntry)
  /\ undoToasts' = undoToasts \ {deletedEntry}
  /\ toasts' = saveToasts(ok)
  /\ saveEffect(entries', ok)
  /\ mountStorage' = NoMount
  /\ UNCHANGED <<date, isLoading, entryToDelete, showDeleteDialog, pc, pendingEntries,
                 nextId>>

\* the "Entry deleted" toast times out or is swiped away
dismissToast(deletedEntry) ==
  /\ deletedEntry \in undoToasts
  /\ undoToasts' = undoToasts \ {deletedEntry}
  /\ UNCHANGED <<storage, entries, date, isLoading, entryToDelete, showDeleteDialog, pc,
                 pendingEntries, toasts, nextId, lastWrite, writeFailures, mountStorage>>

\* the days the week grid shows
WeekEntries == getCurrentWeekEntries(date, entries)

Next ==
  \/ MountLoadEffect
  \/ \E ok \in BOOLEAN : MountSaveEffect(ok)
  \/ \E ok \in BOOLEAN : RerenderSaveEffect(ok)
  \/ Reload
  \/ \E newDate \in SelectableDays \cup {NoDate, InvalidDate} : handleDateChange(newDate)
  \/ \E raw \in FormInputs : SubmitInvalid(raw)
  \/ \E raw \in FormInputs, ok \in BOOLEAN : onSubmit(raw, ok)
  \/ \E i \in 1..7 : handleDeleteEntry(WeekEntries[i])
  \/ cancelDelete
  \/ \E ok \in BOOLEAN : confirmDelete(ok)
  \/ \E t \in undoToasts, ok \in BOOLEAN : undo(t, ok)
  \/ \E t \in undoToasts : dismissToast(t)

Spec == Init /\ [][Next]_vars

----------------------------------------------------------------------------
(* Other specifications *)

\* the page opens on a store that holds no two entries for one date
InitNoDup ==
  /\ Init
  /\ \A i, j \in 1..Len(storage.items) :
       storage.items[i].date = storage.items[j].date => i = j

SpecNoDup == InitNoDup /\ [][Next]_vars

\* entries and ids confirmDelete is applied to as a function of its inputs
RemoveEntries == [date : StoredDates, production : {0, MaxProduction}, id : {1, 101}]
RemoveTargets ==
  [date : StoredDates, production : {MaxProduction}, id : {1, 101, PlaceholderId}]

\* the delete dialog is open on any entry object, stored or not
InitRemove ==
  /\ entries \in UNION {[1..n -> RemoveEntries] : n \in 0..MaxEntries}
  /\ storage = JSONstringify(entries)
  /\ entryToDelete \in RemoveTargets
  /\ showDeleteDialog = TRUE
  /\ date = Today
  /\ isLoading = FALSE
  /\ pc = "idle"
  /\ pendingEntries = NoPending
  /\ undoToasts = {}
  /\ toasts = {}
  /\ nextId = 1
  /\ lastWrite = "ok"
  /\ writeFailures = 0
  /\ mountStorage = NoMount

NextRemove == \E ok \in BOOLEAN : confirmDelete(ok)

SpecRemove == InitRemove /\ [][NextRemove]_vars

\* the days the week window is asked for as a function of the selected date:
\* 2023-12-01 .. 2024-03-31, across the end of the year and 29 February
WeekDays == DaysFromCivil(2023, 12, 1)..DaysFromCivil(2024, 3, 31)
WeekStored ==
  [date : {format(DaysFromCivil(2023, 12, 31)), format(DaysFromCivil(2024, 2, 29))},
   production : {0, MaxProduction}, id : {101}]

\* the mounted component with any of these days selected over any such store
InitWeek ==
  /\ entries \in UNION {[1..n -> WeekStored] : n \in 0..MaxEntries}
  /\ storage = JSONstringify(entries)
  /\ date \in WeekDays
  /\ entryToDelete = Null
  /\ showDeleteDialog = FALSE
  /\ isLoading = FALSE
  /\ pc = "idle"
  /\ pendingEntries = NoPending
  /\ undoToasts = {}
  /\ toasts = {}
  /\ nextId = 0
  /\ lastWrite = "ok"
  /\ writeFailures = 0
  /\ mountStorage = NoMount

NextWeek == \E newDate \in WeekDays \cup {NoDate, InvalidDate} : handleDateChange(newDate)

SpecWeek == InitWeek /\ [][NextWeek]_vars

\* the entries the statistics are computed from as a function of the week:
\* Monday, Thursday and Saturday of today's week, in any order, with equal and
\* unequal productions
StatsDates ==
  {format(DaysFromCivil(2024, 2, 26)), format(DaysFromCivil(2024, 2, 29)),
   format(DaysFromCivil(2024, 3, 2))}
StatsProductions == {0, 5, 7}
StatsEntries ==
  UNION {{[i \in 1..n |-> [date |-> f[i].date, production |-> f[i].production,
                            id |-> 100 + i]] :
            f \in [1..n -> [date : StatsDates, production : StatsProductions]]} :
         n \in 0..MaxStatsEntries}

\* the mounted component over any such collection
InitStats ==
  /\ entries \in StatsEntries
  /\ storage = JSONstringify(entries)
  /\ date = Today
  /\ entryToDelete = Null
  /\ showDeleteDialog = FALSE
  /\ isLoading = FALSE
  /\ pc = "idle"
  /\ pendingEntries = NoPending
  /\ undoToasts = {}
  /\ toasts = {}
  /\ nextId = 0
  /\ lastWrite = "ok"
  /\ writeFailures = 0
  /\ mountStorage = NoMount

NextStats ==
  \E newDate \in SelectableDays \cup {NoDate, InvalidDate} : handleDateChange(newDate)

SpecStats == InitStats /\ [][NextStats]_vars

\* the collections the form is submitted over
FormStored == [date : StoredDates, production : {0, MaxProduction}, id : {101}]

\* the component right after a mount over a stored array of entries with ids:
\* the first save effect wrote [], the second wrote the entries or failed
InitForm ==
  /\ entries \in UNION {[1..n -> FormStored] : n \in 0..MaxEntries}
  /\ mountStorage = JSONstringify(entries)
  /\ \/ lastWrite = "ok" /\ writeFailures = 0 /\ storage = JSONstringify(entries)
     \/ /\ lastWrite = "failed" /\ writeFailures = MaxWriteFailures
        /\ entries # <<>>
        /\ storage = JSONstringify(<<>>)
  /\ date = Today
  /\ entryToDelete = Null
  /\ showDeleteDialog = FALSE
  /\ isLoading = FALSE
  /\ pc = "idle"
  /\ pendingEntries = NoPending
  /\ undoToasts = {}
  /\ toasts = {}
  /\ nextId = 0

\* the form is submitted, with a value the schema rejects or accepts
NextForm ==
  \/ \E raw \in FormInputs : SubmitInvalid(raw)
  \/ \E raw \in FormInputs, ok \in BOOLEAN : onSubmit(raw, ok)

SpecForm == InitForm /\ [][NextForm]_vars

----------------------------------------------------------------------------
(* Claims *)

\* C1: from a store with no duplicate dates, after any sequence of load, upsert,
\* confirmed delete and undo, the in-memory collection holds at most one entry
\* per date.
C1_OneEntryPerDate ==
  \A i, j \in 1..Len(entries) : entries[i].date = entries[j].date => i = j

\* C2: after upsert(d, p) exactly one entry has date d and its production is p;
\* when an entry for d existed before, that entry keeps its id, and a fresh id
\* is generated only when none existed; a successful write stores the same.
C2_UpsertExactlyOne ==
  [][\A raw \in FormInputs, ok \in BOOLEAN :
       onSubmit(raw, ok) =>
         LET d == format(date)
             WithDate(ents, dd) == {i \in 1..Len(ents) : ents[i].date = dd}
         IN  /\ Cardinality(WithDate(entries', d)) = 1
             /\ \A i \in WithDate(entries', d) :
                  /\ entries'[i].production = raw.val
                  /\ IF WithDate(entries, d) # {}
                     THEN /\ \A j \in WithDate(entries, d) : entries[j].id = entries'[i].id
                          /\ nextId' = nextId
                     ELSE /\ \A j \in 1..Len(entries) : entries[j].id # entries'[i].id
                          /\ entries'[i].id = nextId'
                          /\ nextId' = nextId + 1
             /\ ok => /\ Cardinality(WithDate(storage'.items, d)) = 1
                      /\ \A i \in WithDate(storage'.items, d) :
                           storage'.items[i].production = raw.val]_vars

\* C3: confirmDelete with an id that matches no entry leaves the in-memory
\* collection as it was, same entries in the same order, and ends normally
\* (dialog closed, entryToDelete cleared).
C3_RemoveAbsentUnchanged ==
  [][\A ok \in BOOLEAN :
       (confirmDelete(ok) /\ \A i \in 1..Len(entries) : entries[i].id # entryToDelete.id)
         => /\ entries' = entries
            /\ ~showDeleteDialog'
            /\ entryToDelete' = Null
            /\ pc' = "idle"]_vars

\* C3 witness: a delete of a week-window object whose id no entry has went
\* through on a store that still holds entries.
C3_Witness ==
  /\ ~showDeleteDialog
  /\ Len(entries) = MaxEntries
  /\ \E t \in undoToasts : t.id = PlaceholderId

\* C4: every upsert, confirmed delete or undo that changes the in-memory
\* collection attempts, in the same step, a write of the whole new collection
\* (it lands, or its failure is recorded); and whenever the most recent write
\* succeeded, the durable store equals the in-memory collection.
C4_WriteFollowsMutation ==
  /\ [](pc = "idle" /\ lastWrite = "ok" => storage = JSONstringify(entries))
  /\ [][(pc = "idle" /\ pc' = "idle" /\ entries' # entries)
          => \/ lastWrite' = "ok" /\ storage' = JSONstringify(entries')
             \/ /\ lastWrite' = "failed"
                /\ writeFailures' = writeFailures + 1
                /\ storage' = storage]_vars

\* C4 witness: after a failed write, a later user action changed a non-empty
\* collection and its write brought the store back in line.
C4_Witness ==
  /\ pc = "idle"
  /\ mountStorage = NoMount
  /\ writeFailures > 0
  /\ lastWrite = "ok"
  /\ Len(entries) > 0
  /\ storage = JSONstringify(entries)

\* C5: when the write that follows an upsert, a confirmed delete or an undo
\* fails, "Failed to save data" is raised, the store keeps its old contents and
\* the in-memory collection keeps the mutation.
C5_FailedWriteKeepsMutation ==
  [][writeFailures' # writeFailures =>
     /\ \A raw \in FormInputs :
          onSubmit(raw, FALSE) =>
            /\ "Failed to save data" \in toasts'
            /\ storage' = storage
            /\ \E i \in 1..Len(entries') :
                 entries'[i].date = format(date) /\ entries'[i].production = raw.val
            /\ Len(entries') >= Len(entries)
     /\ confirmDelete(FALSE) =>
          /\ "Failed to save data" \in toasts'
          /\ storage' = storage
          /\ \A i \in 1..Len(entries') : entries'[i].id # entryToDelete.id
     /\ \A t \in undoToasts :
          undo(t, FALSE) =>
            /\ "Failed to save data" \in toasts'
            /\ storage' = storage
            /\ Len(entries') = Len(entries) + 1
            /\ entries'[Len(entries')] = t]_vars

\* C5 witness: a user action's write failed; the notice is up and the store
\* differs from the in-memory collection.
C5_Witness ==
  /\ pc = "idle"
  /\ mountStorage = NoMount
  /\ lastWrite = "failed"
  /\ "Failed to save data" \in toasts
  /\ storage # JSONstringify(entries)
  /\ Len(entries) > 0

\* C6: when the key is missing (or holds "") or holds invalid JSON or JSON that
\* is not an array, the load effect sets no entries and the mount goes on: the
\* in-memory collection is empty in every later state of the mount.
C6_LoadOfUnreadableIsEmpty ==
  (mountStorage.kind \in {"missing", "empty", "invalid", "nonArray"} /\ pc # "load")
    => /\ entries = <<>>
       /\ ~pendingEntries.set
       /\ pc \in {"save0", "idle"}

\* C6 witness: the load effect has run on JSON that is not an array.
C6_Witness ==
  /\ pc = "save0"
  /\ mountStorage.kind = "nonArray"
  /\ storage = mountStorage
  /\ entries = <<>>

\* C7: every in-memory entry has a truthy id; the load effect keeps the ids the
\* stored entries have and gives the others ids no entry has had; and when the
\* last write succeeded, the next load generates no id and yields the stored ids.
C7_LoadGivesIds ==
  /\ [](\A i \in 1..Len(entries) : Truthy(entries[i].id) /\ entries[i].id # PlaceholderId)
  /\ [][(pc = "load" /\ pc' = "save0" /\ storage.kind = "array")
          => /\ pendingEntries'.set
             /\ Len(pendingEntries'.val) = Len(storage.items)
             /\ \A i \in 1..Len(storage.items) :
                  LET old == storage.items[i].id
                      new == pendingEntries'.val[i].id
                  IN  /\ Truthy(new)
                      /\ Truthy(old) => new = old
                      /\ ~Truthy(old) =>
                           /\ new \in (nextId + 1)..nextId'
                           /\ \A j \in 1..Len(storage.items) :
                                j # i => /\ storage.items[j].id # new
                                         /\ pendingEntries'.val[j].id # new
             /\ (lastWrite = "ok" =>
                   /\ nextId' = nextId
                   /\ \A i \in 1..Len(storage.items) :
                        pendingEntries'.val[i].id = storage.items[i].id)]_vars

\* C7 witness: an entry that only the store can have brought in (its date is not
\* among the days picked) was given an id by an earlier load, was written, and
\* has now been loaded again.
C7_Witness ==
  /\ pc = "save0"
  /\ lastWrite = "ok"
  /\ pendingEntries.set
  /\ \E i \in 1..Len(pendingEntries.val) :
       /\ pendingEntries.val[i].date = format(DaysFromCivil(2024, 2, 29))
       /\ pendingEntries.val[i].id \in 1..nextId

\* C8: when the store holds an array of entries that all have ids, then once
\* the mount's writes are done and the last of them succeeded, the store holds
\* what it held before the load.
C8_RoundTrip ==
  (/\ pc = "idle"
   /\ mountStorage.kind = "array"
   /\ NeedIds(mountStorage.items) = 0
   /\ lastWrite = "ok")
    => storage = mountStorage

\* C8 witness: the mount over a stored array of MaxEntries entries with ids has
\* finished with a successful write.
C8_Witness ==
  /\ pc = "idle"
  /\ mountStorage.kind = "array"
  /\ Len(mountStorage.items) = MaxEntries
  /\ NeedIds(mountStorage.items) = 0
  /\ lastWrite = "ok"
  /\ storage = mountStorage

\* C9: whatever dates were selected or rejected and whatever the store holds,
\* the week window has 7 entries on consecutive calendar days in ascending
\* order, the first a Sunday, the selected date among them; each carries the
\* production of a stored entry of its date, or 0 when there is none.
C9_WeekWindow ==
  LET week == WeekEntries
      Y(s) == s \div 10000
      M(s) == (s \div 100) % 100
      D(s) == s % 100
      Leap(y) == (y % 4 = 0 /\ y % 100 # 0) \/ y % 400 = 0
      DaysIn(y, m) == IF m = 2 THEN (IF Leap(y) THEN 29 ELSE 28)
                      ELSE IF m \in {4, 6, 9, 11} THEN 30 ELSE 31
      NextDay(s) == IF D(s) < DaysIn(Y(s), M(s)) THEN s + 1
                    ELSE IF M(s) < 12 THEN Y(s) * 10000 + (M(s) + 1) * 100 + 1
                    ELSE (Y(s) + 1) * 10000 + 101
      MonthKey == <<0, 3, 2, 5, 0, 3, 5, 1, 4, 6, 2, 4>>
      Weekday(s) == LET y == IF M(s) < 3 THEN Y(s) - 1 ELSE Y(s)
                    IN  (y + y \div 4 - y \div 100 + y \div 400 + MonthKey[M(s)] + D(s)) % 7
  IN  /\ Len(week) = 7
      /\ \A i \in 1..6 : week[i + 1].date = NextDay(week[i].date)
      /\ Weekday(week[1].date) = 0
      /\ week[1].date <= format(date) /\ format(date) <= week[7].date
      /\ \A i \in 1..7 :
           IF \E k \in 1..Len(entries) : entries[k].date = week[i].date
           THEN \E k \in 1..Len(entries) :
                  entries[k].date = week[i].date /\ entries[k].production = week[i].production
           ELSE week[i].production = 0

\* C9 witness: a selection was rejected while Wednesday 2024-01-03 is selected,
\* whose week starts in 2023 on a day with a stored entry.
C9_Witness ==
  /\ toasts = {"Invalid date selected"}
  /\ date = DaysFromCivil(2024, 1, 3)
  /\ WeekEntries[1].date = 20231231
  /\ WeekEntries[1].production = MaxProduction
  /\ WeekEntries[7].date = 20240106

\* C10 as stated: on an all-zero week the statistics are total 0, average 0 and
\* no best day.
C10_BestAbsent ==
  LET stats == calculateWeeklyStats(WeekEntries)
  IN  (\A i \in 1..7 : WeekEntries[i].production = 0)
        => /\ stats.weeklyTotal = 0
           /\ stats.dailyAverage.num = 0
           /\ stats.maxProductionDay = Null

\* C10 amended: on an all-zero week calculateWeeklyStats returns total 0,
\* average 0, maxProduction 0 and, as maxProductionDay, the week's first day;
\* no best day is shown, because the BEST DAY card (and WeeklySummary's cell)
\* asks for maxProduction > 0.
C10_AllZeroWeek ==
  LET week  == WeekEntries
      stats == calculateWeeklyStats(week)
      ws    == WeeklySummary(week)
  IN  (\A i \in 1..7 : week[i].production = 0)
        => /\ stats.weeklyTotal = 0
           /\ stats.dailyAverage.num = 0
           /\ stats.maxProduction = 0
           /\ stats.maxProductionDay = week[1]
           /\ bestDayShown(stats) = Null
           /\ ws.weeklyTotal = 0
           /\ ws.dailyAverage.num = 0
           /\ ws.maxProductionDay = week[1]
           /\ ws.bestDayShown = Null

\* C10 witness: an all-zero week that holds a stored entry with production 0.
C10_Witness ==
  /\ pc = "idle"
  /\ \A i \in 1..7 : WeekEntries[i].production = 0
  /\ \E i \in 1..7 : WeekEntries[i].id # PlaceholderId

\* C11: in every week window with a positive production, the best day is a day
\* of the window whose production is the maximum over the 7 days and, among the
\* days with that production, the one with the earliest date; the BEST DAY card
\* and WeeklySummary show that day.
C11_BestIsEarliestMax ==
  LET week  == WeekEntries
      stats == calculateWeeklyStats(week)
      ws    == WeeklySummary(week)
  IN  (\E i \in 1..7 : week[i].production > 0)
        => /\ \E i \in 1..7 :
                /\ stats.maxProductionDay = week[i]
                /\ \A j \in 1..7 : week[j].production <= week[i].production
                /\ \A j \in 1..7 :
                     week[j].production = week[i].production
                       => week[i].date <= week[j].date
           /\ stats.maxProduction = stats.maxProductionDay.production
           /\ bestDayShown(stats) = stats.maxProductionDay
           /\ ws.bestDayShown = stats.maxProductionDay

\* C11 witness: Monday and Thursday both have 5 and the other days 0, Thursday's
\* entry is stored before Monday's, and the best day is Monday.
C11_Witness ==
  /\ date = Today
  /\ Len(entries) = 2
  /\ toasts = {"Invalid date selected"}
  /\ entries[1] = [date |-> 20240229, production |-> 5, id |-> 101]
  /\ entries[2] = [date |-> 20240226, production |-> 5, id |-> 102]
  /\ calculateWeeklyStats(WeekEntries).maxProductionDay.date = 20240226
  /\ bestDayShown(calculateWeeklyStats(WeekEntries)).production = 5

\* C12: in every week window, calculateWeeklyStats' dailyAverage (the total of
\* the 7 days over the number of days with production > 0, or 0 when there are
\* none) is the same number as SolarChart's average (the mean of the productions
\* that are > 0, or 0 when there are none); WeeklySummary's average too.
C12_AveragesAgree ==
  LET week  == WeekEntries
      stats == calculateWeeklyStats(week)
      ws    == WeeklySummary(week)
      chart == chartAverage(week)
      Pos   == {i \in 1..7 : week[i].production > 0}
  IN  /\ stats.dailyAverage.den > 0 /\ chart.den > 0
      /\ stats.dailyAverage.num * chart.den = chart.num * stats.dailyAverage.den
      /\ ws.dailyAverage = stats.dailyAverage
      /\ Pos = {} => stats.dailyAverage.num = 0 /\ chart.num = 0
      /\ Pos # {} => /\ stats.dailyAverage.den = Cardinality(Pos)
                     /\ stats.dailyAverage.num = SumProduction(week, 7)
                     /\ chart.den = Cardinality(Pos)

\* C12 witness: a week with productions 5 and 7 and a stored entry of 0; both
\* averages are 12/2.
C12_Witness ==
  /\ date = Today
  /\ toasts = {"Invalid date selected"}
  /\ \E i, j, k \in 1..Len(entries) :
       /\ entries[i].production = 5 /\ entries[j].production = 7
       /\ entries[k].production = 0
       /\ entries[i].date # entries[j].date
       /\ entries[k].date \notin {entries[i].date, entries[j].date}
  /\ calculateWeeklyStats(WeekEntries).dailyAverage = [num |-> 12, den |-> 2]
  /\ chartAverage(WeekEntries) = [num |-> 12, den |-> 2]

\* C13: a submit of a production that is not a number, is negative or is above
\* 100 is never handed to onSubmit and leaves the in-memory collection and the
\* store as they were; every submit that onSubmit handles carries a production
\* in [0, 100], which is the production the entry of the selected date then has.
C13_InvalidNeverStored ==
  [][\A raw \in FormInputs :
       LET InRange == raw.kind = "num" /\ 0 <= raw.val /\ raw.val <= 100
       IN  /\ SubmitInvalid(raw) => entries' = entries /\ storage' = storage
           /\ ~InRange => /\ ENABLED SubmitInvalid(raw) \/ ~(Interactive /\ ~isLoading)
                          /\ \A ok \in BOOLEAN : ~onSubmit(raw, ok)
           /\ \A ok \in BOOLEAN :
                onSubmit(raw, ok) =>
                  /\ InRange
                  /\ \E i \in 1..Len(entries') :
                       /\ entries'[i].date = format(date)
                       /\ entries'[i].production = raw.val
                  /\ \A i \in 1..Len(entries') :
                       (i > Len(entries) \/ entries'[i] # entries[i])
                         => entries'[i].production \in 0..100]_vars

\* C13 witness: after a mount whose write of the loaded entries failed, a
\* rejected submit has been handled: the collection is still in memory, the
\* store still holds [] and no write was attempted.
C13_Witness ==
  /\ pc = "idle"
  /\ mountStorage = NoMount
  /\ lastWrite = "failed"
  /\ Len(entries) = MaxEntries
  /\ storage = JSONstringify(<<>>)
  /\ nextId = 0

\* C14 as stated: after the load effect has run on missing or corrupt stored
\* data, the collection is empty and a notice is up.
C14_ReadFailureNoticed ==
  (pc = "save0" /\ mountStorage.kind \in {"missing", "empty", "invalid", "nonArray"})
    => /\ entries = <<>>
       /\ ~pendingEntries.set
       /\ "Failed to load saved data" \in toasts

\* C14 amended: stored text that does not parse, or parses to a value that is no
\* array, leaves the collection empty and raises "Failed to load saved data";
\* a missing key (or "") leaves the collection empty and raises no notice; in
\* both cases the mount goes on to its save effect.
C14_CorruptNoticedMissingSilent ==
  pc = "save0" =>
    /\ mountStorage.kind \in {"invalid", "nonArray"}
         => /\ entries = <<>>
            /\ ~pendingEntries.set
            /\ toasts = {"Failed to load saved data"}
            /\ ~isLoading
            /\ ENABLED MountSaveEffect(TRUE)
    /\ mountStorage.kind \in {"missing", "empty"}
         => /\ entries = <<>>
            /\ ~pendingEntries.set
            /\ toasts = {}
            /\ ~isLoading
            /\ ENABLED MountSaveEffect(TRUE)

\* C14 witness: the load effect has caught the parse error of invalid JSON.
C14_Witness ==
  /\ pc = "save0"
  /\ mountStorage.kind = "invalid"
  /\ storage = mountStorage
  /\ toasts = {"Failed to load saved data"}
  /\ entries = <<>>

\* C15: Undo puts the deleted entry back with its id and date, and the
\* production the week window then shows for that date is the restored entry's,
\* also when the date was submitted again between the delete and the Undo.
C15_UndoOverwrites ==
  [][\A t \in undoToasts, ok \in BOOLEAN :
       undo(t, ok) =>
         LET z    == DaysFromCivil(t.date \div 10000, (t.date \div 100) % 100, t.date % 100)
             week == getCurrentWeekEntries(z, entries')
         IN  /\ \E i \in 1..Len(entries') : entries'[i] = t
             /\ week[getDay(z) + 1].date = t.date
             /\ week[getDay(z) + 1].production = t.production]_vars

\* C16 as stated: when several entries have the date of a week-window day, the
\* window shows the production of the last of them in the collection's order.
C16_LastMatchWins ==
  \A i \in 1..7 :
    LET Matches == {k \in 1..Len(entries) : entries[k].date = WeekEntries[i].date}
    IN  Cardinality(Matches) > 1
          => \E k \in Matches :
               /\ \A j \in Matches : j <= k
               /\ WeekEntries[i].production = entries[k].production

\* C16 amended: when several entries have the date of a week-window day, the
\* window shows the production, and carries the id, of the first of them in the
\* collection's order.
C16_FirstMatchWins ==
  \A i \in 1..7 :
    LET Matches == {k \in 1..Len(entries) : entries[k].date = WeekEntries[i].date}
    IN  Cardinality(Matches) > 1
          => \E k \in Matches :
               /\ \A j \in Matches : k <= j
               /\ WeekEntries[i].production = entries[k].production
               /\ WeekEntries[i].id = entries[k].id

\* C16 witness: two entries dated Saturday 2024-03-02, the first with 0 (it was
\* submitted again) and the second with 100; the window shows 0.
C16_Witness ==
  /\ pc = "idle"
  /\ date = Today
  /\ Len(entries) = 2
  /\ entries[1].date = 20240302 /\ entries[1].production = 0
  /\ entries[2].date = 20240302 /\ entries[2].production = MaxProduction
  /\ WeekEntries[7].date = 20240302
  /\ WeekEntries[7].production = 0
  /\ WeekEntries[7].id = entries[1].id

\* C17: in every state of the mount sequence, after the load effect, after the
\* first save effect and after the save effect of the loaded entries, the store
\* still holds every entry it held when the component mounted (an entry that had
\* no id may have been given one), and stored text that did not parse is still
\* there.
C17_MountKeepsStore ==
  (pc \in {"save0", "save1", "idle"} /\ mountStorage # NoMount)
    => /\ mountStorage.kind = "array"
            => /\ storage.kind = "array"
               /\ \A i \in 1..Len(mountStorage.items) :
                    \E k \in 1..Len(storage.items) :
                      /\ storage.items[k].date = mountStorage.items[i].date
                      /\ storage.items[k].production = mountStorage.items[i].production
                      /\ Truthy(mountStorage.items[i].id)
                           => storage.items[k].id = mountStorage.items[i].id
       /\ mountStorage.kind \in {"invalid", "nonArray"} => storage = mountStorage

\* C18: the delete dialog is only opened on a week-window day with production
\* > 0; such a day carries the id, date and production of an entry of the
\* collection, never a placeholder id; while the dialog stays open neither the
\* collection nor the store changes, so the entry is still there when the
\* delete is confirmed, and confirmDelete removes it.
C18_RemoveOnlyStoredIds ==
  /\ [](\A i \in 1..7 :
          WeekEntries[i].production > 0
            => /\ WeekEntries[i].id # PlaceholderId
               /\ \E k \in 1..Len(entries) :
                    /\ entries[k].id = WeekEntries[i].id
                    /\ entries[k].date = WeekEntries[i].date
                    /\ entries[k].production = WeekEntries[i].production)
  /\ [](showDeleteDialog
          => /\ entryToDelete # Null
             /\ entryToDelete.production > 0
             /\ \E k \in 1..Len(entries) :
                  /\ entries[k].id = entryToDelete.id
                  /\ entries[k].date = entryToDelete.date
                  /\ entries[k].production = entryToDelete.production)
  /\ [][(~showDeleteDialog /\ showDeleteDialog')
          => /\ \E i \in 1..7 : entryToDelete' = WeekEntries[i]
             /\ entryToDelete'.production > 0
             /\ \E k \in 1..Len(entries) : entries[k].id = entryToDelete'.id
             /\ entries' = entries /\ storage' = storage]_vars
  /\ [][(showDeleteDialog /\ showDeleteDialog')
          => /\ entries' = entries
             /\ storage' = storage
             /\ entryToDelete' = entryToDelete]_vars
  /\ [][\A ok \in BOOLEAN :
          confirmDelete(ok)
            => /\ \E k \in 1..Len(entries) : entries[k].id = entryToDelete.id
               /\ Len(entries') < Len(entries)
               /\ \A k \in 1..Len(entries') : entries'[k].id # entryToDelete.id]_vars

\* C18 witness: the dialog is open on a stored entry while the Undo toast of an
\* earlier delete is still up and the collection still holds the entry.
C18_Witness ==
  /\ showDeleteDialog
  /\ undoToasts # {}
  /\ \E k \in 1..Len(entries) : entries[k].id = entryToDelete.id
  /\ \A t \in undoToasts : t.id # entryToDelete.id

====
